---- MODULE Spec2Model ----
(***************************************************************************)
(* Optimistic list reconciliation of the multiple-activities app: the      *)
(* useOptimistic reducers of the five list components, the render-time     *)
(* de-duplication, the client handlers (delete, toggle, priority change,   *)
(* save-edit, create, upload) with their reloads, and the server actions   *)
(* they call (ownership check, upload validation).                         *)
(***************************************************************************)
EXTENDS Integers, Sequences, FiniteSets, TLC

(* ------------------------------ bounds -------------------------------- *)
\* number of ids the store can hand out
NumIds == 2
\* number of distinct item ids in the lists handed to a reducer
NumPureIds == 2
\* number of blob names the bucket can hand out
MaxBlobs == 3
\* longest list handed to a reducer in the pure-function specification
MaxLen == 3
\* user actions started in one view instance
MaxActions == 2
MaxReviews == 2
MaxSignups == 2
MaxCalls == 2

Ids == 1..NumIds
Users == {"A", "B"}
NoUser == "nobody"
NoId == 0
NoItem == [id |-> NoId, owner |-> NoUser, v |-> "", done |-> FALSE, pri |-> "", url |-> 0]

(* --------------------------- item values ------------------------------ *)
\* The value of the one edited field (title / name / priority).
priorityValues == {"low", "medium", "high"}

toLowerCase(value) ==
    CASE value = "LOW" -> "low"
      [] value = "MEDIUM" -> "medium"
      [] value = "HIGH" -> "high"
      [] OTHER -> value

normalizePriority(value) ==
    LET normalized == toLowerCase(value)
    IN IF normalized \in priorityValues THEN normalized ELSE "medium"

PureItems == [id : 1..NumPureIds, owner : {"A"}, v : {"a", "b"}, done : {FALSE}, pri : {"medium"}, url : {0}]

RECURSIVE SeqsUpTo(_, _)
SeqsUpTo(S, n) ==
    IF n = 0 THEN {<<>>}
    ELSE LET shorter == SeqsUpTo(S, n - 1)
         IN shorter \cup {Append(s, x) : s \in {t \in shorter : Len(t) = n - 1}, x \in S}

IdsOf(L) == {L[i].id : i \in 1..Len(L)}
UniqueIds(L) == \A i, j \in 1..Len(L) : L[i].id = L[j].id => i = j
Count(L, k) == Cardinality({i \in 1..Len(L) : L[i].id = k})

(* ----------------------- reducer building blocks ---------------------- *)
\* Array.prototype.filter((x) => x.id !== id)
FilterOutId(L, id) == SelectSeq(L, LAMBDA x : x.id # id)

\* the update case matching on the replacement's own id instead of action.id
ReplaceByItemId(L, id, item) ==
    [i \in 1..Len(L) |-> IF L[i].id = item.id /\ item # NoItem THEN item ELSE L[i]]

\* Array.prototype.map((x) => x.id === action.id && action.item ? action.item : x)
ReplaceById(L, id, item) ==
    [i \in 1..Len(L) |-> IF L[i].id = id /\ item # NoItem THEN item ELSE L[i]]

\* currentPhotos.some((p) => p.id === item.id)
SomeId(L, id) == \E i \in 1..Len(L) : L[i].id = id

Action(type, id, item) == [id |-> id, item |-> item, type |-> type]

(* ------------------------------ reducers ------------------------------ *)
TodoListReducer(currentTodos, action) ==
    CASE action.type = "add" ->
           IF action.item # NoItem THEN <<action.item>> \o currentTodos ELSE currentTodos
      [] action.type = "toggle" ->
           \* map((todo) => todo.id === id ? {...todo, completed: !todo.completed} : todo)
           [i \in 1..Len(currentTodos) |->
               IF currentTodos[i].id = action.id
               THEN [currentTodos[i] EXCEPT !.done = ~currentTodos[i].done]
               ELSE currentTodos[i]]
      [] action.type = "delete" -> FilterOutId(currentTodos, action.id)
      [] action.type = "update" -> ReplaceById(currentTodos, action.id, action.item)
      [] OTHER -> currentTodos

\* the delete case with its comparison inverted (=== for !==)
NotesListReducerInverted(currentNotes, action) ==
    CASE action.type = "add" ->
           IF action.item # NoItem THEN <<action.item>> \o currentNotes ELSE currentNotes
      [] action.type = "delete" -> SelectSeq(currentNotes, LAMBDA x : x.id = action.id)
      [] action.type = "update" -> ReplaceById(currentNotes, action.id, action.item)
      [] OTHER -> currentNotes

NotesListReducer(currentNotes, action) ==
    CASE action.type = "add" ->
           IF action.item # NoItem THEN <<action.item>> \o currentNotes ELSE currentNotes
      [] action.type = "delete" -> FilterOutId(currentNotes, action.id)
      [] action.type = "update" -> ReplaceById(currentNotes, action.id, action.item)
      [] OTHER -> currentNotes

\* the add case without its "if (!action.photo) return currentPhotos" guard
PhotoGalleryReducerUnguarded(currentPhotos, action) ==
    CASE action.type = "add" ->
           IF SomeId(currentPhotos, action.item.id) THEN currentPhotos
           ELSE <<action.item>> \o currentPhotos
      [] action.type = "delete" -> FilterOutId(currentPhotos, action.id)
      [] action.type = "update" -> ReplaceById(currentPhotos, action.id, action.item)
      [] OTHER -> currentPhotos

PhotoGalleryReducer(currentPhotos, action) ==
    CASE action.type = "add" ->
           IF action.item = NoItem THEN currentPhotos
           ELSE IF SomeId(currentPhotos, action.item.id) THEN currentPhotos
           ELSE <<action.item>> \o currentPhotos
      [] action.type = "delete" -> FilterOutId(currentPhotos, action.id)
      [] action.type = "update" -> ReplaceById(currentPhotos, action.id, action.item)
      [] OTHER -> currentPhotos

FoodReviewGalleryReducer(currentPhotos, action) ==
    CASE action.type = "add" ->
           IF action.item = NoItem THEN currentPhotos
           ELSE IF SomeId(currentPhotos, action.item.id) THEN currentPhotos
           ELSE <<action.item>> \o currentPhotos
      [] action.type = "delete" -> FilterOutId(currentPhotos, action.id)
      [] action.type = "update" -> ReplaceById(currentPhotos, action.id, action.item)
      [] OTHER -> currentPhotos

PokemonReviewGalleryReducer(currentPokemon, action) ==
    CASE action.type = "add" ->
           IF action.item = NoItem THEN currentPokemon
           ELSE IF SomeId(currentPokemon, action.item.id) THEN currentPokemon
           ELSE <<action.item>> \o currentPokemon
      [] action.type = "update" -> ReplaceById(currentPokemon, action.id, action.item)
      [] OTHER -> currentPokemon


Reducer(f, L, action) ==
    CASE f = "todos" -> TodoListReducer(L, action)
      [] f = "notes" -> NotesListReducer(L, action)
      [] f = "photos" -> PhotoGalleryReducer(L, action)
      [] f = "food" -> FoodReviewGalleryReducer(L, action)
      [] OTHER -> PokemonReviewGalleryReducer(L, action)

(* ------------------------ render-time reconcile ----------------------- *)
\* self.findIndex((p) => p.id === id): first index holding id, 0 when none
RECURSIVE findIndexFrom(_, _, _)
findIndexFrom(self, id, i) ==
    IF i > Len(self) THEN 0
    ELSE IF self[i].id = id THEN i
    ELSE findIndexFrom(self, id, i + 1)

findIndex(self, id) == findIndexFrom(self, id, 1)

\* list.filter((photo, index, self) => index === self.findIndex((p) => p.id === photo.id))
RECURSIVE uniqueFrom(_, _)
uniqueFrom(self, index) ==
    IF index > Len(self) THEN <<>>
    ELSE (IF index = findIndex(self, self[index].id) THEN <<self[index]>> ELSE <<>>)
         \o uniqueFrom(self, index + 1)

uniquePhotos(L) == uniqueFrom(L, 1)

\* what each component maps over when it renders its optimistic list
Rendered(f, optimisticList) ==
    IF f = "todos" THEN optimisticList ELSE uniquePhotos(optimisticList)

(* ------------------------- authoritative store ------------------------ *)
\* external calls a server action makes, in the order it makes them
CallAuth == "auth.getUser"
CallRead == "db.read"
CallWrite == "db.write"
CallBlobPut == "storage.upload"
CallBlobRemove == "storage.remove"

\* error taxonomy of the failure envelopes
ErrNone == "none"
ErrAuth == "AuthenticationRequired"
ErrPerm == "PermissionDeniedOrNotFound"
ErrValidation == "ValidationFailed"
ErrUpstream == "UpstreamFailure"
ErrNotFound == "NotFound"
ErrConflict == "AlreadyReviewed"
\* not an envelope: the promise of the action is rejected
ErrThrown == "Thrown"

\* text lengths of the bounded vocabulary of titles and names
LongText == "long"
strLen(t) ==
    CASE t = "" -> 0
      [] t = LongText -> 501
      [] OTHER -> 1

\* z.string().min(1).max(500) for todo titles, max(255) for the other features
titleOk(f, t) == strLen(t) >= 1 /\ strLen(t) <= (IF f = "todos" THEN 500 ELSE 255)

Reverse(L) == [i \in 1..Len(L) |-> L[Len(L) + 1 - i]]

findUnique(st, id) ==
    LET hits == {i \in 1..Len(st) : st[i].id = id}
    IN IF hits = {} THEN NoItem ELSE st[CHOOSE i \in hits : TRUE]

Out(success, err, calls, st, bk, data) ==
    [success |-> success, err |-> err, calls |-> calls, data |-> data, store |-> st,
     bucket |-> bk]

\* the ownership check reduced to an existence check
deleteRowAnyOwner(st, bk, user, id, faults) ==
    IF user = NoUser THEN Out(FALSE, ErrAuth, <<CallAuth>>, st, bk, NoItem)
    ELSE IF CallRead \in faults THEN Out(FALSE, ErrUpstream, <<CallAuth, CallRead>>, st, bk, NoItem)
    ELSE LET row == findUnique(st, id)
         IN IF row = NoItem
            THEN Out(FALSE, ErrPerm, <<CallAuth, CallRead>>, st, bk, NoItem)
            ELSE IF CallWrite \in faults
            THEN Out(FALSE, ErrUpstream, <<CallAuth, CallRead, CallWrite>>, st, bk, NoItem)
            ELSE Out(TRUE, ErrNone, <<CallAuth, CallRead, CallWrite>>,
                     FilterOutId(st, id), bk, NoItem)

\* deleteTodo / deleteNote: auth, ownership check, delete
deleteRow(st, bk, user, id, faults) ==
    IF user = NoUser THEN Out(FALSE, ErrAuth, <<CallAuth>>, st, bk, NoItem)
    ELSE IF CallRead \in faults THEN Out(FALSE, ErrUpstream, <<CallAuth, CallRead>>, st, bk, NoItem)
    ELSE LET row == findUnique(st, id)
         IN IF row = NoItem \/ row.owner # user
            THEN Out(FALSE, ErrPerm, <<CallAuth, CallRead>>, st, bk, NoItem)
            ELSE IF CallWrite \in faults
            THEN Out(FALSE, ErrUpstream, <<CallAuth, CallRead, CallWrite>>, st, bk, NoItem)
            ELSE Out(TRUE, ErrNone, <<CallAuth, CallRead, CallWrite>>,
                     FilterOutId(st, id), bk, NoItem)

\* deletePhoto / deleteFoodPhoto: auth, ownership check, storage remove
\* (its error is only logged), delete
deletePhoto(st, bk, user, id, faults) ==
    IF user = NoUser THEN Out(FALSE, ErrAuth, <<CallAuth>>, st, bk, NoItem)
    ELSE IF CallRead \in faults THEN Out(FALSE, ErrUpstream, <<CallAuth, CallRead>>, st, bk, NoItem)
    ELSE LET row == findUnique(st, id)
             bk2 == IF CallBlobRemove \in faults THEN bk ELSE bk \ {row.url}
         IN IF row = NoItem \/ row.owner # user
            THEN Out(FALSE, ErrPerm, <<CallAuth, CallRead>>, st, bk, NoItem)
            ELSE IF CallWrite \in faults
            THEN Out(FALSE, ErrUpstream, <<CallAuth, CallRead, CallBlobRemove, CallWrite>>,
                     st, bk2, NoItem)
            ELSE Out(TRUE, ErrNone, <<CallAuth, CallRead, CallBlobRemove, CallWrite>>,
                     FilterOutId(st, id), bk2, NoItem)

serverDelete(f, st, bk, user, id, faults) ==
    IF f \in {"photos", "food"} THEN deletePhoto(st, bk, user, id, faults)
    ELSE deleteRow(st, bk, user, id, faults)

\* an update names one field: title (name), completed ("true" / "false") or priority
Update(field, value) == [value |-> value, field |-> field]

updateValid(f, upd) ==
    CASE upd.field = "title" -> titleOk(f, upd.value)
      [] upd.field = "priority" -> upd.value \in priorityValues
      [] OTHER -> TRUE

applyUpdate(row, upd) ==
    CASE upd.field = "title" -> [row EXCEPT !.v = upd.value]
      [] upd.field = "priority" -> [row EXCEPT !.pri = upd.value]
      [] OTHER -> [row EXCEPT !.done = (upd.value = "true")]

\* rows are kept in the order of the timestamp their list is sorted by:
\* created_at, except notes, which are listed by updated_at
storeAfterUpdate(f, st, id, upd) ==
    IF f = "notes"
    THEN Append(FilterOutId(st, id), applyUpdate(findUnique(st, id), upd))
    ELSE [i \in 1..Len(st) |-> IF st[i].id = id THEN applyUpdate(st[i], upd) ELSE st[i]]

\* updateTodo / updateNote / updatePhoto / updateFoodPhoto
serverUpdate(f, st, bk, user, id, upd, faults) ==
    IF user = NoUser THEN Out(FALSE, ErrAuth, <<CallAuth>>, st, bk, NoItem)
    ELSE IF CallRead \in faults THEN Out(FALSE, ErrUpstream, <<CallAuth, CallRead>>, st, bk, NoItem)
    ELSE LET row == findUnique(st, id)
         IN IF row = NoItem \/ row.owner # user
            THEN Out(FALSE, ErrPerm, <<CallAuth, CallRead>>, st, bk, NoItem)
            ELSE IF ~updateValid(f, upd)
            THEN Out(FALSE, ErrValidation, <<CallAuth, CallRead>>, st, bk, NoItem)
            ELSE IF CallWrite \in faults
            THEN Out(FALSE, ErrUpstream, <<CallAuth, CallRead, CallWrite>>, st, bk, NoItem)
            ELSE Out(TRUE, ErrNone, <<CallAuth, CallRead, CallWrite>>,
                     storeAfterUpdate(f, st, id, upd), bk, NoItem)

NewRow(id, user, title, pri, url) ==
    [id |-> id, owner |-> user, v |-> title, done |-> FALSE, pri |-> pri, url |-> url]

\* the row inserted twice
serverCreateTwice(f, st, bk, user, title, pri, newId, faults) ==
    IF user = NoUser THEN Out(FALSE, ErrAuth, <<CallAuth>>, st, bk, NoItem)
    ELSE IF ~(titleOk(f, title) /\ pri \in priorityValues)
    THEN Out(FALSE, ErrValidation, <<CallAuth>>, st, bk, NoItem)
    ELSE IF CallWrite \in faults
    THEN Out(FALSE, ErrUpstream, <<CallAuth, CallWrite>>, st, bk, NoItem)
    ELSE Out(TRUE, ErrNone, <<CallAuth, CallWrite>>,
             Append(Append(st, NewRow(newId, user, title, pri, 0)),
                    NewRow(newId, user, title, pri, 0)), bk, NoItem)

\* createTodo / createNote: auth, schema, create; the envelope carries no data
serverCreate(f, st, bk, user, title, pri, newId, faults) ==
    IF user = NoUser THEN Out(FALSE, ErrAuth, <<CallAuth>>, st, bk, NoItem)
    ELSE IF ~(titleOk(f, title) /\ pri \in priorityValues)
    THEN Out(FALSE, ErrValidation, <<CallAuth>>, st, bk, NoItem)
    ELSE IF CallWrite \in faults
    THEN Out(FALSE, ErrUpstream, <<CallAuth, CallWrite>>, st, bk, NoItem)
    ELSE Out(TRUE, ErrNone, <<CallAuth, CallWrite>>,
             Append(st, NewRow(newId, user, title, pri, 0)), bk, NoItem)

\* an uploaded File: content type split at "/", size in bytes, name
File(type, size, name) == [type |-> type, size |-> size, name |-> name]
NoFile == [type |-> <<>>, size |-> 0, name |-> ""]
TypePng == <<"image", "png">>
TypePdf == <<"application", "pdf">>

\* file.type.startsWith("image/")
startsWithImage(type) == Len(type) >= 2 /\ type[1] = "image"

\* const maxSize = 10 * 1024 * 1024
maxSize == 10 * 1024 * 1024

\* the content-type check left out
uploadPhotoAnyType(f, st, bk, user, file, newId, newBlob, faults) ==
    IF user = NoUser THEN Out(FALSE, ErrAuth, <<CallAuth>>, st, bk, NoItem)
    ELSE IF file = NoFile THEN Out(FALSE, ErrValidation, <<CallAuth>>, st, bk, NoItem)
    ELSE IF file.size > maxSize THEN Out(FALSE, ErrValidation, <<CallAuth>>, st, bk, NoItem)
    ELSE IF ~titleOk(f, file.name) THEN Out(FALSE, ErrValidation, <<CallAuth>>, st, bk, NoItem)
    ELSE IF CallBlobPut \in faults
    THEN Out(FALSE, ErrUpstream, <<CallAuth, CallBlobPut>>, st, bk, NoItem)
    ELSE IF CallWrite \in faults
    THEN Out(FALSE, ErrUpstream, <<CallAuth, CallBlobPut, CallWrite>>,
             st, bk \cup {newBlob}, NoItem)
    ELSE LET photo == NewRow(newId, user, file.name, "medium", newBlob)
         IN Out(TRUE, ErrNone, <<CallAuth, CallBlobPut, CallWrite>>,
                Append(st, photo), bk \cup {newBlob}, photo)

\* the size check written with >= : a file of exactly maxSize bytes is refused
uploadPhotoBelowMax(f, st, bk, user, file, newId, newBlob, faults) ==
    IF user = NoUser THEN Out(FALSE, ErrAuth, <<CallAuth>>, st, bk, NoItem)
    ELSE IF file = NoFile THEN Out(FALSE, ErrValidation, <<CallAuth>>, st, bk, NoItem)
    ELSE IF ~startsWithImage(file.type) THEN Out(FALSE, ErrValidation, <<CallAuth>>, st, bk, NoItem)
    ELSE IF file.size >= maxSize THEN Out(FALSE, ErrValidation, <<CallAuth>>, st, bk, NoItem)
    ELSE IF ~titleOk(f, file.name) THEN Out(FALSE, ErrValidation, <<CallAuth>>, st, bk, NoItem)
    ELSE IF CallBlobPut \in faults
    THEN Out(FALSE, ErrUpstream, <<CallAuth, CallBlobPut>>, st, bk, NoItem)
    ELSE IF CallWrite \in faults
    THEN Out(FALSE, ErrUpstream, <<CallAuth, CallBlobPut, CallWrite>>,
             st, bk \cup {newBlob}, NoItem)
    ELSE LET photo == NewRow(newId, user, file.name, "medium", newBlob)
         IN Out(TRUE, ErrNone, <<CallAuth, CallBlobPut, CallWrite>>,
                Append(st, photo), bk \cup {newBlob}, photo)

\* uploadPhoto / uploadFoodPhoto
uploadPhoto(f, st, bk, user, file, newId, newBlob, faults) ==
    IF user = NoUser THEN Out(FALSE, ErrAuth, <<CallAuth>>, st, bk, NoItem)
    ELSE IF file = NoFile THEN Out(FALSE, ErrValidation, <<CallAuth>>, st, bk, NoItem)
    ELSE IF ~startsWithImage(file.type) THEN Out(FALSE, ErrValidation, <<CallAuth>>, st, bk, NoItem)
    ELSE IF file.size > maxSize THEN Out(FALSE, ErrValidation, <<CallAuth>>, st, bk, NoItem)
    ELSE IF ~titleOk(f, file.name) THEN Out(FALSE, ErrValidation, <<CallAuth>>, st, bk, NoItem)
    ELSE IF CallBlobPut \in faults
    THEN Out(FALSE, ErrUpstream, <<CallAuth, CallBlobPut>>, st, bk, NoItem)
    ELSE IF CallWrite \in faults
    THEN Out(FALSE, ErrUpstream, <<CallAuth, CallBlobPut, CallWrite>>,
             st, bk \cup {newBlob}, NoItem)
    ELSE LET photo == NewRow(newId, user, file.name, "medium", newBlob)
         IN Out(TRUE, ErrNone, <<CallAuth, CallBlobPut, CallWrite>>,
                Append(st, photo), bk \cup {newBlob}, photo)

\* what an upstream error says about itself (error.message of the provider)
Diags == {"bucket not found", "payload too large"}

\* the message of the returned envelope; the texts differ per table only in
\* the noun, and a validation message is the schema's text for the field
message(op, out, diag) ==
    CASE out.err = ErrNone -> <<op, "successfully">>
      [] out.err = ErrAuth -> <<"You must be logged in to", op>>
      [] out.err = ErrPerm -> <<"not found or you don't have permission to", op>>
      [] out.err = ErrValidation -> <<"invalid input for", op>>
      [] out.err = ErrNotFound -> <<"not found">>
      [] out.err = ErrConflict -> <<"You have already reviewed this">>
      [] OTHER -> IF out.calls[Len(out.calls)] = CallBlobPut
                  THEN <<"Failed to upload photo: ", diag>>
                  ELSE <<"Failed to", op>>

\* a failure returned as {error: message}, the way the list actions do
envelopeErrorOnFailure(op, out, diag) ==
    IF out.success
    THEN [success |-> out.success, message |-> message(op, out, diag)]
    ELSE [error |-> message(op, out, diag)]

\* the value a create, upload, update or delete action returns
envelope(op, out, diag) ==
    IF out.data = NoItem
    THEN [success |-> out.success, message |-> message(op, out, diag)]
    ELSE [success |-> out.success, data |-> out.data, message |-> message(op, out, diag)]

\* the value a list action returns
listResult(out) == [data |-> out.data, error |-> out.error]

\* the where clause of the list call: owner-scoped, except getFoodPhotos
\* no where clause on any table
listWhereAll(f, st, user) == st

\* where: {profileId: user.id}; getFoodPhotos has no owner condition
listWhere(f, st, user) ==
    IF f = "food" THEN st ELSE SelectSeq(st, LAMBDA r : r.owner = user)

ListOut(data, error, calls) == [calls |-> calls, data |-> data, error |-> error]

\* getTodos / getNotes / getPhotos / getFoodPhotos
\* orderBy: todos created_at desc, notes updated_at desc, photos by sortOrder
getList(f, st, user, order, faults) ==
    IF user = NoUser THEN ListOut(<<>>, ErrAuth, <<CallAuth>>)
    ELSE IF CallRead \in faults THEN ListOut(<<>>, ErrUpstream, <<CallAuth, CallRead>>)
    ELSE ListOut(IF f \in {"todos", "notes"} \/ order = "desc"
                 THEN Reverse(listWhere(f, st, user))
                 ELSE listWhere(f, st, user),
                 ErrNone, <<CallAuth, CallRead>>)

(* ------------------------------ reviews -------------------------------- *)
\* z.number().min(1).max(5)
ratingOk(rating) == rating >= 1 /\ rating <= 5

\* a row of the reviews table: item is the reviewed photo or pokemon
Review(id, user, item, rating) ==
    [id |-> id, owner |-> user, item |-> item, rating |-> rating]

RevOut(success, err, calls, data, rv) ==
    [success |-> success, err |-> err, calls |-> calls, data |-> data, reviews |-> rv]

\* prisma.review.findFirst({where: {foodPhotoId, profileId}})
findFirst(rv, item, user) ==
    \E i \in 1..Len(rv) : rv[i].item = item /\ rv[i].owner = user

\* the rating looked at only after the row is written
createReviewValidatesAfterWrite(rv, st, user, item, rating, newId, faults) ==
    IF user = NoUser THEN RevOut(FALSE, ErrAuth, <<CallAuth>>, NoItem, rv)
    ELSE IF CallRead \in faults
    THEN RevOut(FALSE, ErrUpstream, <<CallAuth, CallRead>>, NoItem, rv)
    ELSE IF findUnique(st, item) = NoItem
    THEN RevOut(FALSE, ErrNotFound, <<CallAuth, CallRead>>, NoItem, rv)
    ELSE IF findFirst(rv, item, user)
    THEN RevOut(FALSE, ErrConflict, <<CallAuth, CallRead, CallRead>>, NoItem, rv)
    ELSE IF CallWrite \in faults
    THEN RevOut(FALSE, ErrUpstream, <<CallAuth, CallRead, CallRead, CallWrite>>, NoItem, rv)
    ELSE IF ~ratingOk(rating)
    THEN RevOut(FALSE, ErrValidation, <<CallAuth, CallRead, CallRead, CallWrite>>, NoItem,
                Append(rv, Review(newId, user, item, rating)))
    ELSE RevOut(TRUE, ErrNone, <<CallAuth, CallRead, CallRead, CallWrite>>,
                Review(newId, user, item, rating),
                Append(rv, Review(newId, user, item, rating)))

\* createReview / createPokemonReview: auth, schema, item exists, no review
\* of this item by the caller yet, create
createReview(rv, st, user, item, rating, newId, faults) ==
    IF user = NoUser THEN RevOut(FALSE, ErrAuth, <<CallAuth>>, NoItem, rv)
    ELSE IF ~ratingOk(rating)
    THEN RevOut(FALSE, ErrValidation, <<CallAuth>>, NoItem, rv)
    ELSE IF CallRead \in faults
    THEN RevOut(FALSE, ErrUpstream, <<CallAuth, CallRead>>, NoItem, rv)
    ELSE IF findUnique(st, item) = NoItem
    THEN RevOut(FALSE, ErrNotFound, <<CallAuth, CallRead>>, NoItem, rv)
    ELSE IF findFirst(rv, item, user)
    THEN RevOut(FALSE, ErrConflict, <<CallAuth, CallRead, CallRead>>, NoItem, rv)
    ELSE IF CallWrite \in faults
    THEN RevOut(FALSE, ErrUpstream, <<CallAuth, CallRead, CallRead, CallWrite>>, NoItem, rv)
    ELSE RevOut(TRUE, ErrNone, <<CallAuth, CallRead, CallRead, CallWrite>>,
                Review(newId, user, item, rating),
                Append(rv, Review(newId, user, item, rating)))

\* the caller's own review with this id, or none
ownReview(rv, user, id) ==
    \E i \in 1..Len(rv) : rv[i].id = id /\ rv[i].owner = user

\* updateReview / updatePokemonReview: auth, ownership, rating, update
updateReview(rv, user, id, rating, faults) ==
    IF user = NoUser THEN RevOut(FALSE, ErrAuth, <<CallAuth>>, NoItem, rv)
    ELSE IF CallRead \in faults
    THEN RevOut(FALSE, ErrUpstream, <<CallAuth, CallRead>>, NoItem, rv)
    ELSE IF ~ownReview(rv, user, id)
    THEN RevOut(FALSE, ErrPerm, <<CallAuth, CallRead>>, NoItem, rv)
    ELSE IF ~ratingOk(rating)
    THEN RevOut(FALSE, ErrValidation, <<CallAuth, CallRead>>, NoItem, rv)
    ELSE IF CallWrite \in faults
    THEN RevOut(FALSE, ErrUpstream, <<CallAuth, CallRead, CallWrite>>, NoItem, rv)
    ELSE RevOut(TRUE, ErrNone, <<CallAuth, CallRead, CallWrite>>, NoItem,
                [i \in 1..Len(rv) |->
                    IF rv[i].id = id
                    THEN Review(id, rv[i].owner, rv[i].item, rating)
                    ELSE rv[i]])

\* deleteReview / deletePokemonReview: auth, ownership, delete
deleteReview(rv, user, id, faults) ==
    IF user = NoUser THEN RevOut(FALSE, ErrAuth, <<CallAuth>>, NoItem, rv)
    ELSE IF CallRead \in faults
    THEN RevOut(FALSE, ErrUpstream, <<CallAuth, CallRead>>, NoItem, rv)
    ELSE IF ~ownReview(rv, user, id)
    THEN RevOut(FALSE, ErrPerm, <<CallAuth, CallRead>>, NoItem, rv)
    ELSE IF CallWrite \in faults
    THEN RevOut(FALSE, ErrUpstream, <<CallAuth, CallRead, CallWrite>>, NoItem, rv)
    ELSE RevOut(TRUE, ErrNone, <<CallAuth, CallRead, CallWrite>>, NoItem,
                SelectSeq(rv, LAMBDA r : r.id # id))

\* getReviews / getPokemonReviews: every user's reviews of one item, newest first
getReviews(rv, user, item, faults) ==
    IF user = NoUser THEN ListOut(<<>>, ErrAuth, <<CallAuth>>)
    ELSE IF CallRead \in faults THEN ListOut(<<>>, ErrUpstream, <<CallAuth, CallRead>>)
    ELSE ListOut(Reverse(SelectSeq(rv, LAMBDA r : r.item = item)), ErrNone,
                 <<CallAuth, CallRead>>)

(* ------------------------------ pokemon -------------------------------- *)
CallFetch == "fetch pokeapi.co"

\* the names pokeapi.co knows
PokeApiNames == {"a"}

trim(name) ==
    CASE name = " " -> ""
      [] name = "a " -> "a"
      [] name = "A " -> "A"
      [] OTHER -> name

\* name.toLowerCase().trim()
searchName(name) ==
    trim(CASE name = "A " -> "a " [] name = "A" -> "a" [] OTHER -> toLowerCase(name))

SearchOut(data, error, calls, st) ==
    [calls |-> calls, data |-> data, store |-> st, error |-> error]

findByName(st, name) ==
    LET hits == {i \in 1..Len(st) : st[i].v = name}
    IN IF hits = {} THEN NoItem ELSE st[CHOOSE i \in hits : TRUE]

\* searchPokemon: name required, cached row, else fetch and cache; no
\* identity lookup anywhere
searchPokemon(st, name, newId, faults) ==
    IF name = "" \/ strLen(trim(name)) = 0
    THEN SearchOut(NoItem, ErrValidation, <<>>, st)
    ELSE IF CallRead \in faults THEN SearchOut(NoItem, ErrUpstream, <<CallRead>>, st)
    ELSE IF findByName(st, searchName(name)) # NoItem
    THEN SearchOut(findByName(st, searchName(name)), ErrNone, <<CallRead>>, st)
    ELSE IF CallFetch \in faults
    THEN SearchOut(NoItem, ErrUpstream, <<CallRead, CallFetch>>, st)
    ELSE IF searchName(name) \notin PokeApiNames
    THEN SearchOut(NoItem, ErrNotFound, <<CallRead, CallFetch>>, st)
    ELSE IF CallWrite \in faults
    THEN SearchOut(NoItem, ErrUpstream, <<CallRead, CallFetch, CallWrite>>, st)
    ELSE SearchOut(NewRow(newId, NoUser, searchName(name), "medium", 0), ErrNone,
                   <<CallRead, CallFetch, CallWrite>>,
                   Append(st, NewRow(newId, NoUser, searchName(name), "medium", 0)))

\* getPokemon: by id, no identity lookup
getPokemon(st, id, faults) ==
    IF CallRead \in faults THEN ListOut(NoItem, ErrUpstream, <<CallRead>>)
    ELSE IF findUnique(st, id) = NoItem THEN ListOut(NoItem, ErrNotFound, <<CallRead>>)
    ELSE ListOut(findUnique(st, id), ErrNone, <<CallRead>>)

\* getPokemonWithReviews: the whole catalogue by created_at, no identity lookup
getPokemonWithReviews(st, order, faults) ==
    IF CallRead \in faults THEN ListOut(<<>>, ErrUpstream, <<CallRead>>)
    ELSE ListOut(IF order = "desc" THEN Reverse(st) ELSE st, ErrNone, <<CallRead>>)

(* ------------------------------- signup -------------------------------- *)
\* the passwords typed into the two password fields
SignupPasswords == {"", "weak", "StrongPassword123!", "DifferentPassword123!"}

\* the strength rule of the password field: "weak" is too short and has no
\* uppercase letter and no digit
isStrong(password) == password \in {"StrongPassword123!", "DifferentPassword123!"}

SignupForm(calls, password, confirmPassword, pending, toast, event) ==
    [calls |-> calls, password |-> password, confirmPassword |-> confirmPassword,
     pending |-> pending, toast |-> toast, event |-> event]

\* the sign up button is disabled while the form is invalid or pending
canSubmit(f) ==
    ~f.pending /\ f.password = f.confirmPassword /\ isStrong(f.password)

\* signup called whatever the fields hold
handleSubmitUnchecked(f) ==
    {SignupForm(f.calls + 1, f.password, f.confirmPassword, TRUE, f.toast, "submit")}

\* the forms a submit event can leave: an error toast and no call for a
\* mismatch or a weak password (either toast when both apply), else the
\* signup action is called and the form is pending
handleSubmit(f) ==
    IF f.password = f.confirmPassword /\ isStrong(f.password)
    THEN {SignupForm(f.calls + 1, f.password, f.confirmPassword, TRUE, f.toast, "submit")}
    ELSE {SignupForm(f.calls, f.password, f.confirmPassword, FALSE, t, "submit") :
             t \in (IF f.password # f.confirmPassword THEN {"Passwords do not match."} ELSE {})
                   \cup (IF ~isStrong(f.password) THEN {"Password is too weak. Please strengthen it."} ELSE {})}

(* ------------------------------- state -------------------------------- *)
VARIABLES
    feature,     \* which list component / server-action module is modelled
    store,       \* rows of the feature's table, in timestamp order
    bucket,      \* blob names present in the storage bucket
    nextId,      \* next id the store assigns
    nextBlob,    \* next blob name the upload generates
    reviews,     \* rows of the reviews table of the feature, in creation order
    nextReview,  \* next id the reviews table assigns
    form,        \* the signup form: its fields, pending flag, last toast, signup calls
    running,     \* server actions that have started and not returned, oldest first
    last,        \* the last direct server-action call and its envelope
    session,     \* identity behind the view's cookies, NoUser once expired
    list,        \* useState list of the component (todos, notes, photos ...)
    optimistic,  \* optimistic actions queued by useOptimistic
    sortOrder,   \* useState sortOrder
    h,           \* the handler running inside startTransition, or the last that ran
    up,          \* handleUpload, running or as it last ended
    cr,          \* the form action of useActionState, running or as it last ended
    loads,       \* list calls in flight, oldest first
    started,     \* number of user actions started in the view so far
    pIn,         \* reducer input list
    pAct,        \* reducer action
    pOut         \* reducer result

serverVars == <<store, bucket, nextId, nextBlob, reviews, nextReview>>
clientVars == <<session, list, optimistic, sortOrder, h, up, cr, loads, started>>
pureVars == <<pIn, pAct, pOut>>
vars == <<feature, store, bucket, nextId, nextBlob, reviews, nextReview, form, running, last, session, list, optimistic,
          sortOrder, h, up, cr, loads, started, pIn, pAct, pOut>>

StoreFeatures == {"todos", "notes", "photos", "food"}
PhotoFeatures == {"photos", "food"}

NoAction == Action("none", NoId, NoItem)
NoCall == [id |-> NoId, success |-> FALSE, err |-> ErrNone, calls |-> <<>>,
           user |-> NoUser, file |-> NoFile, op |-> "none", resp |-> <<>>]
NoUpdate == Update("none", "")
IdleH == [id |-> NoId, success |-> FALSE, upd |-> NoUpdate, kind |-> "none",
          stage |-> "idle", loadOk |-> FALSE, thrown |-> FALSE]
IdleUp == [success |-> FALSE, sortOrder |-> "desc", stage |-> "idle"]
IdleCr == [success |-> FALSE, stage |-> "idle"]

\* the rows a table can hold when the page is first rendered: ids 1..k in
\* creation order, each owned by some user, photos each with their own blob
InitRow(f, i, owner) ==
    NewRow(i, owner, "a", "medium", IF f \in PhotoFeatures THEN i ELSE 0)
ServerInit ==
    /\ store \in UNION {{[i \in 1..k |-> InitRow(feature, i, owners[i])] :
                            owners \in [1..k -> Users]} : k \in 0..NumIds}
    /\ bucket = IF feature \in PhotoFeatures THEN {store[i].url : i \in 1..Len(store)} ELSE {}
    /\ nextId = Len(store) + 1
    /\ nextBlob = Len(store) + 1
    /\ reviews = <<>>
    /\ nextReview = 1

ServerIdle ==
    /\ store = <<>>
    /\ bucket = {}
    /\ nextId = 1
    /\ nextBlob = 1
    /\ reviews = <<>>
    /\ nextReview = 1

IdleForm == SignupForm(0, "", "", FALSE, "", "none")

ClientIdle ==
    /\ form = IdleForm
    /\ running = <<>>
    /\ session = NoUser
    /\ list = <<>>
    /\ optimistic = <<>>
    /\ sortOrder = "desc"
    /\ h = IdleH
    /\ up = IdleUp
    /\ cr = IdleCr
    /\ loads = <<>>
    /\ started = 0

PureIdle ==
    /\ pIn = <<>>
    /\ pAct = NoAction
    /\ pOut = <<>>

(* ------------------- specification of the reducers -------------------- *)
PureInit ==
    /\ feature \in {"todos", "notes", "photos", "food", "pokemon"}
    /\ pIn \in SeqsUpTo(PureItems, MaxLen)
    /\ pAct = NoAction
    /\ pOut = pIn
    /\ last = NoCall
    /\ ServerIdle
    /\ ClientIdle

Apply(action) ==
    /\ pAct = NoAction
    /\ pAct' = action
    /\ pOut' = Reducer(feature, pIn, action)
    /\ UNCHANGED <<feature, form, running, pIn, last, serverVars, clientVars>>

\* setOptimistic({type: "add", item}) and the same without an item
ApplyAdd == \E item \in PureItems \cup {NoItem} : Apply(Action("add", NoId, item))

\* setOptimistic({type: "delete", id})
ApplyDelete == \E id \in 1..NumPureIds : Apply(Action("delete", id, NoItem))

\* setOptimistic({type: "update", id, item}) and the same without an item
ApplyUpdate ==
    \E id \in 1..NumPureIds, item \in PureItems \cup {NoItem} : Apply(Action("update", id, item))

\* setOptimistic({type: "toggle", id})
ApplyToggle == \E id \in 1..NumPureIds : Apply(Action("toggle", id, NoItem))

\* an action type no reducer has a case for
ApplyOther == \E id \in 1..NumPureIds : Apply(Action("refresh", id, NoItem))

\* what a load function stores when an empty list comes back for every answer
loadedEmpty(f, data) == <<>>

\* what loadTodos / loadNotes / loadPhotos / loadFoodPhotos pass to the setter
loaded(f, data) ==
    CASE f = "todos" ->
           [i \in 1..Len(data) |-> [data[i] EXCEPT !.pri = normalizePriority(data[i].pri)]]
      [] f = "notes" -> data
      [] OTHER -> uniquePhotos(data)

\* a load function is handed result.data and calls its setter
ApplyLoad ==
    /\ pAct = NoAction
    /\ pAct' = Action("load", NoId, NoItem)
    /\ pOut' = loaded(feature, pIn)
    /\ UNCHANGED <<feature, form, running, pIn, last, serverVars, clientVars>>

PureNext == ApplyAdd \/ ApplyDelete \/ ApplyUpdate \/ ApplyToggle \/ ApplyOther \/ ApplyLoad

SpecPure == PureInit /\ [][PureNext]_vars

(* ----------------- specification of the server actions ---------------- *)
\* the calling identity: the signed-in user A, or nobody; B only owns rows
Callers == {"A", NoUser}

\* the two pages with reviews: the shared food gallery and the pokemon
\* catalogue; the pokemon review actions repeat the food review actions line
\* by line, so the review calls are made on the food gallery
ReviewInit ==
    /\ store \in IF feature = "foodReview"
                 THEN {<<InitRow("food", 1, "A"), InitRow("food", 2, "B")>>}
                 ELSE {<<>>, <<NewRow(1, NoUser, "a", "medium", 0)>>}
    /\ bucket = IF feature = "foodReview" THEN {store[i].url : i \in 1..Len(store)} ELSE {}
    /\ nextId = Len(store) + 1
    /\ nextBlob = Len(store) + 1
    /\ reviews = <<>>
    /\ nextReview = 1

SrvInit ==
    /\ \/ feature \in StoreFeatures /\ ServerInit
       \/ feature \in {"foodReview", "pokemonReview"} /\ ReviewInit
    /\ last = NoCall
    /\ ClientIdle
    /\ PureIdle

Record(op, user, id, file, out, diag) ==
    [id |-> id, success |-> out.success, err |-> out.err, calls |-> out.calls,
     user |-> user, file |-> file, op |-> op, resp |-> envelope(op, out, diag)]

\* the texts the blob store's error object can carry in a call with these
\* faults; a database error is an exception that the catch block only logs
DiagsFor(faults) ==
    IF faults \cap {CallBlobPut, CallBlobRemove} = {} THEN {"bucket not found"} ELSE Diags

\* a foreign key without ON DELETE CASCADE that is not enforced
noCascade(rv, st) == rv

\* FOREIGN KEY ("food_photo_id") REFERENCES "food_photos"("id") ON DELETE CASCADE
onDeleteCascade(rv, st) == SelectSeq(rv, LAMBDA r : SomeId(st, r.item))

Commit(out) ==
    /\ store' = out.store
    /\ bucket' = out.bucket
    /\ reviews' = onDeleteCascade(reviews, out.store)
    /\ UNCHANGED nextReview

\* an unauthenticated call returns before it looks at its arguments: one
\* representative argument is enough for it
Relevant(user, isFirst) == user # NoUser \/ isFirst

\* a call that never reaches a failing service runs as it does without that
\* failure: only calls that meet each of their failures are made
Manifest(faults, calls) ==
    \A f \in faults : \E i \in 1..Len(calls) : calls[i] = f

CallDelete ==
    /\ feature \in StoreFeatures
    /\ \E user \in Callers, id \in Ids,
          faults \in {{}, {CallRead}, {CallWrite}}
                     \cup (IF feature \in PhotoFeatures
                           THEN {{CallBlobRemove}, {CallBlobRemove, CallWrite}}
                           ELSE {}) :
        LET out == serverDelete(feature, store, bucket, user, id, faults)
        IN /\ Relevant(user, id = 1 /\ faults = {})
           /\ Manifest(faults, out.calls)
           /\ Commit(out)
           /\ \E diag \in DiagsFor(faults) :
                 last' = Record("delete", user, id, NoFile, out, diag)
           /\ UNCHANGED <<feature, form, running, nextId, nextBlob, clientVars, pureVars>>

\* the fields a direct call sets: a rejected title for every table, an accepted
\* one where the title is the only field, and for todos the two other fields;
\* a call that returns before it looks at its update (no such row, another
\* user's row, a failed read) is made with one accepted update
CallUpdate ==
    /\ feature \in StoreFeatures
    /\ \E user \in Callers, id \in Ids,
          upd \in {Update("title", t) : t \in {"", LongText}}
                  \cup (IF feature = "todos"
                        THEN {Update("completed", "true"), Update("completed", "false"),
                              Update("priority", "high"), Update("priority", "urgent")}
                        ELSE {Update("title", "b")}),
          faults \in {{}, {CallRead}, {CallWrite}} :
        LET out == serverUpdate(feature, store, bucket, user, id, upd, faults)
        IN /\ Relevant(user, id = 1 /\ faults = {} /\ upd = Update("title", ""))
           /\ Manifest(faults, out.calls)
           /\ (out.err = ErrPerm \/ (out.err = ErrUpstream /\ Len(out.calls) = 2))
              => upd = IF feature = "todos" THEN Update("completed", "true")
                       ELSE Update("title", "b")
           /\ Commit(out)
           /\ \E diag \in DiagsFor(faults) :
                 last' = Record("update", user, id, NoFile, out, diag)
           /\ UNCHANGED <<feature, form, running, nextId, nextBlob, clientVars, pureVars>>

CallCreate ==
    /\ feature \in {"todos", "notes"}
    /\ nextId <= NumIds
    /\ \E user \in Callers, title \in {"a", "", LongText}, faults \in SUBSET {CallWrite} :
        LET out == serverCreate(feature, store, bucket, user, title, "medium", nextId, faults)
        IN /\ Relevant(user, title = "a" /\ faults = {})
           /\ Manifest(faults, out.calls)
           /\ Commit(out)
           /\ nextId' = IF out.success THEN nextId + 1 ELSE nextId
           /\ \E diag \in DiagsFor(faults) :
                 last' = Record("create", user, NoId, NoFile, out, diag)
           /\ UNCHANGED <<feature, form, running, nextBlob, clientVars, pureVars>>

CallUpload ==
    /\ feature \in PhotoFeatures
    /\ nextId <= NumIds
    /\ nextBlob <= MaxBlobs
    /\ \E user \in Callers,
          file \in {NoFile} \cup {File(t, n, "a") : t \in {TypePng, TypePdf},
                                                    n \in {1, maxSize, maxSize + 1}},
          faults \in {{}, {CallBlobPut}, {CallWrite}} :
        LET out == uploadPhoto(feature, store, bucket, user, file, nextId, nextBlob, faults)
        IN /\ Relevant(user, faults = {})
           /\ Manifest(faults, out.calls)
           /\ Commit(out)
           /\ nextId' = IF out.success THEN nextId + 1 ELSE nextId
           /\ nextBlob' = IF out.bucket # bucket THEN nextBlob + 1 ELSE nextBlob
           /\ \E diag \in DiagsFor(faults) :
                 last' = Record("upload", user, NoId, file, out, diag)
           /\ UNCHANGED <<feature, form, running, clientVars, pureVars>>

CallList ==
    /\ feature \in StoreFeatures
    /\ \E user \in Callers, order \in {"asc", "desc"}, faults \in SUBSET {CallRead} :
        LET out == getList(feature, store, user, order, faults)
        IN /\ last' = [id |-> NoId, success |-> out.error = ErrNone, err |-> out.error,
                       calls |-> out.calls, user |-> user, file |-> NoFile,
                       op |-> "list", resp |-> listResult(out)]
           /\ UNCHANGED <<feature, form, running, serverVars, clientVars, pureVars>>


CommitReviews(out) ==
    /\ reviews' = out.reviews
    /\ nextReview' = IF Len(out.reviews) > Len(reviews) THEN nextReview + 1 ELSE nextReview
    /\ UNCHANGED <<store, bucket, nextId, nextBlob>>

ListRecord(op, user, id, out) ==
    [id |-> id, success |-> out.error = ErrNone, err |-> out.error, calls |-> out.calls,
     user |-> user, file |-> NoFile, op |-> op, resp |-> listResult(out)]

CallCreateReview ==
    /\ feature = "foodReview"
    /\ nextReview <= MaxReviews
    /\ \E user \in Users \cup {NoUser}, item \in Ids, rating \in {0, 3}, faults \in {{}, {CallWrite}} :
        LET out == createReview(reviews, store, user, item, rating, nextReview, faults)
        IN /\ Relevant(user, item = 1 /\ rating = 3 /\ faults = {})
           /\ Manifest(faults, out.calls)
           /\ CommitReviews(out)
           /\ \E diag \in DiagsFor(faults) :
                 last' = Record("createReview", user, item, NoFile, out, diag)
           /\ UNCHANGED <<feature, form, running, clientVars, pureVars>>

CallUpdateReview ==
    /\ feature = "foodReview"
    /\ \E user \in Callers, id \in 1..MaxReviews, rating \in {0, 5}, faults \in {{}} :
        LET out == updateReview(reviews, user, id, rating, faults)
        IN /\ Relevant(user, id = 1 /\ rating = 5 /\ faults = {})
           /\ CommitReviews(out)
           /\ \E diag \in DiagsFor(faults) :
                 last' = Record("updateReview", user, id, NoFile, out, diag)
           /\ UNCHANGED <<feature, form, running, clientVars, pureVars>>

CallDeleteReview ==
    /\ feature = "foodReview"
    /\ \E user \in Callers, id \in 1..MaxReviews, faults \in {{}} :
        LET out == deleteReview(reviews, user, id, faults)
        IN /\ Relevant(user, id = 1 /\ faults = {})
           /\ CommitReviews(out)
           /\ \E diag \in DiagsFor(faults) :
                 last' = Record("deleteReview", user, id, NoFile, out, diag)
           /\ UNCHANGED <<feature, form, running, clientVars, pureVars>>

CallGetReviews ==
    /\ feature = "foodReview"
    /\ \E user \in Callers, item \in Ids, faults \in SUBSET {CallRead} :
        LET out == getReviews(reviews, user, item, faults)
        IN /\ last' = ListRecord("list", user, item, out)
           /\ UNCHANGED <<feature, form, running, serverVars, clientVars, pureVars>>

\* deleteFoodPhoto on the shared gallery, by any of the users
CallDeleteFoodPhoto ==
    /\ feature = "foodReview"
    /\ \E user \in Callers, id \in Ids, faults \in {{}} :
        LET out == serverDelete("food", store, bucket, user, id, faults)
        IN /\ Relevant(user, id = 1 /\ faults = {})
           /\ Commit(out)
           /\ \E diag \in DiagsFor(faults) :
                 last' = Record("delete", user, id, NoFile, out, diag)
           /\ UNCHANGED <<feature, form, running, nextId, nextBlob, clientVars, pureVars>>

CallSearchPokemon ==
    /\ feature = "pokemonReview"
    /\ \E user \in Callers, name \in {"", " ", "a", "A ", "zz"},
          faults \in {{}, {CallRead}, {CallFetch}, {CallWrite}} :
        LET out == searchPokemon(store, name, nextId, faults)
        IN /\ nextId <= NumIds \/ out.store = store
           /\ store' = out.store
           /\ nextId' = IF out.store # store THEN nextId + 1 ELSE nextId
           /\ last' = ListRecord("search", user, NoId, out)
           /\ UNCHANGED <<feature, form, running, bucket, nextBlob, reviews, nextReview, clientVars, pureVars>>

CallGetPokemon ==
    /\ feature = "pokemonReview"
    /\ \E user \in Callers, id \in Ids, faults \in SUBSET {CallRead} :
        LET out == getPokemon(store, id, faults)
        IN /\ last' = ListRecord("get", user, id, out)
           /\ UNCHANGED <<feature, form, running, serverVars, clientVars, pureVars>>

CallGetPokemonWithReviews ==
    /\ feature = "pokemonReview"
    /\ \E user \in Callers, order \in {"asc", "desc"}, faults \in SUBSET {CallRead} :
        LET out == getPokemonWithReviews(store, order, faults)
        IN /\ last' = ListRecord("list", user, NoId, out)
           /\ UNCHANGED <<feature, form, running, serverVars, clientVars, pureVars>>

\* the actions of a page that start with the identity lookup
AuthOps(f) ==
    CASE f \in {"todos", "notes"} -> {"create", "update", "delete", "list"}
      [] f \in PhotoFeatures -> {"upload", "update", "delete", "list"}
      [] f = "foodReview" -> {"createReview", "updateReview", "deleteReview", "list"}
      [] OTHER -> {}

\* createClient() and supabase.auth.getUser() are awaited before the try
\* block of the action: an error raised there is not caught, the action has
\* read none of its arguments yet, and the caller's await is rejected
rejected(op) ==
    [id |-> NoId, success |-> FALSE, err |-> ErrThrown, calls |-> <<CallAuth>>,
     user |-> NoUser, file |-> NoFile, op |-> op, resp |-> [error |-> "rejected"]]

CallWhileLookupRaises ==
    \E op \in AuthOps(feature) :
        /\ last' = rejected(op)
        /\ UNCHANGED <<feature, form, running, serverVars, clientVars, pureVars>>

SrvNext ==
    \/ CallWhileLookupRaises
    \/ CallDelete \/ CallUpdate \/ CallCreate \/ CallUpload \/ CallList
    \/ CallCreateReview \/ CallUpdateReview \/ CallDeleteReview \/ CallGetReviews
    \/ CallDeleteFoodPhoto
    \/ CallSearchPokemon \/ CallGetPokemon \/ CallGetPokemonWithReviews

SpecServer == SrvInit /\ [][SrvNext]_vars

(* -------------------------- the signup page ---------------------------- *)
SignupInit ==
    /\ feature = "signup"
    /\ ServerIdle
    /\ last = NoCall
    /\ ClientIdle
    /\ PureIdle

SignupIdle == UNCHANGED <<feature, running, serverVars, last, clientVars, pureVars>>

\* the fields are disabled while the signup is pending
TypePassword ==
    /\ ~form.pending
    /\ \E p \in SignupPasswords :
          form' = [form EXCEPT !.password = p, !.event = "type"]
    /\ SignupIdle

TypeConfirmPassword ==
    /\ ~form.pending
    /\ \E p \in SignupPasswords :
          form' = [form EXCEPT !.confirmPassword = p, !.event = "type"]
    /\ SignupIdle

\* a click on the enabled button submits the form
ClickSignUp ==
    /\ canSubmit(form)
    /\ form.calls < MaxSignups
    /\ form' \in handleSubmit(form)
    /\ SignupIdle

\* a submit event fired on the form itself, whatever the button's state
FireSubmit ==
    /\ ~form.pending
    /\ form.calls < MaxSignups
    /\ form' \in handleSubmit(form)
    /\ SignupIdle

\* the signup action resolves with {success, message}: the message is toasted
SignupReturns ==
    /\ form.pending
    /\ \E text \in {"Check your email to confirm your account", "Email already exists"} :
          form' = [form EXCEPT !.pending = FALSE, !.toast = text, !.event = "return"]
    /\ SignupIdle

SignupNext ==
    TypePassword \/ TypeConfirmPassword \/ ClickSignUp \/ FireSubmit \/ SignupReturns

SpecSignup == SignupInit /\ [][SignupNext]_vars

(* ------------- specification of one view of a feature list ------------ *)
\* the list useOptimistic hands to the render: the pending actions folded
\* over the list state
RECURSIVE optimisticList(_, _, _)
optimisticList(f, L, actions) ==
    IF actions = <<>> THEN L
    ELSE optimisticList(f, Reducer(f, L, Head(actions)), Tail(actions))

DisplayedOf(L, actions) == Rendered(feature, optimisticList(feature, L, actions))
Displayed == DisplayedOf(list, optimistic)


\* a handler that reloads only after a successful mutation
reloadsOnSuccess(kind, success) == success

\* whether the handler calls its load function once the mutation has returned
reloadsAfter(kind, success) ==
    CASE kind \in {"delete", "toggle", "priority"} -> TRUE
      [] OTHER -> success

\* a call of a load function in flight; newer is history kept for the
\* properties: the list delivered by a call issued after this one, if any
Load(by, order, stage, ok, data) ==
    [data |-> data, order |-> order, stage |-> stage, by |-> by, ok |-> ok,
     newer |-> <<>>]
NewLoad(by, order) == Load(by, order, "req", FALSE, <<>>)

RemoveAt(L, i) == SubSeq(L, 1, i - 1) \o SubSeq(L, i + 1, Len(L))

\* the calls issued before call i learn that the list of call i was
\* delivered, unless a list of a call issued after i was delivered already
overtakenBy(L, i) ==
    [j \in 1..Len(L) |->
        IF j < i /\ L[i].ok /\ L[i].newer = <<>>
        THEN [L[j] EXCEPT !.newer = <<L[i].data>>]
        ELSE L[j]]

\* isPending of useTransition
isPending == h.stage # "idle"

Running(kind, id, upd) ==
    [id |-> id, success |-> FALSE, upd |-> upd, kind |-> kind, stage |-> "req",
     loadOk |-> FALSE, thrown |-> FALSE]

Init ==
    /\ feature \in StoreFeatures
    /\ ServerInit
    /\ Len(store) = NumIds - 1
    /\ feature # "food" => \A i \in 1..Len(store) : store[i].owner = "A"
    /\ last = NoCall
    /\ form = IdleForm
    /\ running = <<>>
    /\ session = "A"
    \* useState(normalizedInitialTodos) / useState(initialNotes) / useState(initialPhotos)
    /\ list = LET data == getList(feature, store, "A", "desc", {}).data
              IN IF feature = "todos"
                 THEN [i \in 1..Len(data) |->
                          [data[i] EXCEPT !.pri = normalizePriority(data[i].pri)]]
                 ELSE data
    /\ optimistic = <<>>
    /\ sortOrder = "desc"
    /\ h = IdleH
    /\ up = IdleUp
    /\ cr = IdleCr
    /\ loads = IF feature \in PhotoFeatures THEN <<NewLoad("effect", "desc")>> ELSE <<>>
    /\ started = 0
    /\ PureIdle

\* a click on an enabled control of the list
Start ==
    /\ ~isPending
    /\ started < MaxActions
    /\ started' = started + 1
    /\ UNCHANGED <<feature, form, running, serverVars, last, session, list, pureVars>>

handleDelete ==
    \E id \in IdsOf(Displayed) :
        /\ feature \in StoreFeatures
        /\ Start
        /\ optimistic' = Append(optimistic, Action("delete", id, NoItem))
        /\ h' = Running("delete", id, NoUpdate)
        /\ UNCHANGED <<sortOrder, up, cr, loads>>

handleToggleComplete ==
    /\ feature = "todos"
    /\ \E i \in 1..Len(Displayed) :
        /\ Start
        /\ optimistic' = Append(optimistic, Action("toggle", Displayed[i].id, NoItem))
        /\ h' = Running("toggle", Displayed[i].id,
                        Update("completed", IF Displayed[i].done THEN "false" ELSE "true"))
        /\ UNCHANGED <<sortOrder, up, cr, loads>>

handlePriorityChange ==
    /\ feature = "todos"
    /\ \E i \in 1..Len(Displayed), newPriority \in {"high"} :
        /\ Start
        /\ optimistic' = Append(optimistic,
                                Action("update", Displayed[i].id,
                                       [Displayed[i] EXCEPT !.pri = newPriority]))
        /\ h' = Running("priority", Displayed[i].id, Update("priority", newPriority))
        /\ UNCHANGED <<sortOrder, up, cr, loads>>

handleSaveEdit ==
    \E id \in IdsOf(Displayed), editTitle \in {"b"} :
        /\ feature \in StoreFeatures
        /\ Start
        /\ h' = Running("saveEdit", id, Update("title", editTitle))
        /\ UNCHANGED <<optimistic, sortOrder, up, cr, loads>>

\* an upload that shows a placeholder with an id made up by the client
handleUploadWithPlaceholder ==
    /\ feature \in PhotoFeatures
    /\ up.stage = "idle"
    /\ nextId <= NumIds
    /\ nextBlob <= MaxBlobs
    /\ Start
    /\ up' = [success |-> FALSE, sortOrder |-> sortOrder, stage |-> "req"]
    /\ optimistic' = Append(optimistic, Action("add", NumIds + 1,
                                               [NoItem EXCEPT !.id = NumIds + 1]))
    /\ UNCHANGED <<sortOrder, h, cr, loads>>

handleUpload ==
    /\ feature \in PhotoFeatures
    /\ up.stage = "idle"
    /\ nextId <= NumIds
    /\ nextBlob <= MaxBlobs
    /\ Start
    /\ up' = [success |-> FALSE, sortOrder |-> sortOrder, stage |-> "req"]
    /\ UNCHANGED <<optimistic, sortOrder, h, cr, loads>>

createAction ==
    /\ feature \in {"todos", "notes"}
    /\ cr.stage = "idle"
    /\ nextId <= NumIds
    /\ Start
    /\ cr' = [success |-> FALSE, stage |-> "req"]
    /\ UNCHANGED <<optimistic, sortOrder, h, up, loads>>

\* the sort button: setSortOrder, and the effect that reloads on the change
toggleSortOrder ==
    /\ feature \in PhotoFeatures \cup {"pokemon"}
    /\ Start
    /\ sortOrder' = IF sortOrder = "asc" THEN "desc" ELSE "asc"
    /\ loads' = Append(loads, NewLoad("effect", sortOrder'))
    /\ UNCHANGED <<optimistic, h, up, cr>>

\* the mutation of the running transition returns its envelope
MutationReturns ==
    /\ h.stage = "req"
    /\ \E faults \in {{}, {CallWrite}} :
        LET out == IF h.kind = "delete"
                   THEN serverDelete(feature, store, bucket, session, h.id, faults)
                   ELSE serverUpdate(feature, store, bucket, session, h.id, h.upd, faults)
        IN /\ Commit(out)
           /\ IF reloadsAfter(h.kind, out.success)
              THEN /\ h' = [h EXCEPT !.stage = "load", !.success = out.success]
                   /\ loads' = Append(loads, NewLoad("h", sortOrder))
                   /\ UNCHANGED optimistic
              ELSE /\ h' = [h EXCEPT !.stage = "idle", !.upd = NoUpdate,
                                     !.success = out.success]
                   /\ optimistic' = <<>>
                   /\ UNCHANGED loads
    /\ UNCHANGED <<feature, form, running, nextId, nextBlob, last, session, list, sortOrder, up, cr,
                   started, pureVars>>

\* uploadPhoto / uploadFoodPhoto returns to handleUpload
UploadReturns ==
    /\ feature \in PhotoFeatures
    /\ up.stage = "req"
    /\ \E faults \in {{}, {CallBlobPut}} :
        LET out == uploadPhoto(feature, store, bucket, session, File(TypePng, 1, "a"),
                               nextId, nextBlob, faults)
        IN /\ Commit(out)
           /\ nextId' = IF out.success THEN nextId + 1 ELSE nextId
           /\ nextBlob' = IF out.bucket # bucket THEN nextBlob + 1 ELSE nextBlob
           /\ IF out.success
              THEN /\ up' = [up EXCEPT !.stage = "load", !.success = TRUE]
                   /\ loads' = Append(loads, NewLoad("up", up.sortOrder))
              ELSE /\ up' = [up EXCEPT !.stage = "idle", !.success = FALSE]
                   /\ UNCHANGED loads
    /\ UNCHANGED <<feature, form, running, last, session, list, optimistic, sortOrder, h, cr, started,
                   pureVars>>

\* createTodo / createNote returns and the effect on createState runs
CreateReturns ==
    /\ cr.stage = "req"
    /\ \E faults \in SUBSET {CallWrite} :
        LET out == serverCreate(feature, store, bucket, session, "a", "medium", nextId,
                                faults)
        IN /\ Commit(out)
           /\ nextId' = IF out.success THEN nextId + 1 ELSE nextId
           /\ cr' = [success |-> out.success, stage |-> "idle"]
           /\ loads' = IF out.success THEN Append(loads, NewLoad("effect", sortOrder))
                       ELSE loads
    /\ UNCHANGED <<feature, form, running, nextBlob, last, session, list, optimistic, sortOrder, h, up,
                   started, pureVars>>

\* the list action of a load in flight runs on the server
ServeLoad ==
    \E i \in 1..Len(loads), faults \in SUBSET {CallRead} :
        LET out == IF feature = "pokemon"
                   THEN getPokemonWithReviews(store, loads[i].order, faults)
                   ELSE getList(feature, store, session, loads[i].order, faults)
        IN /\ loads[i].stage = "req"
           /\ loads' = [loads EXCEPT ![i] = [loads[i] EXCEPT !.stage = "resp",
                                                             !.ok = (out.error = ErrNone),
                                                             !.data = out.data]]
           /\ UNCHANGED <<feature, form, running, serverVars, last, session, list, optimistic, sortOrder,
                          h, up, cr, started, pureVars>>

\* the answer reaches the load function; what awaited it goes on: the
\* transition ends, or handleUpload reaches its finally block
DeliverLoad ==
    \E i \in 1..Len(loads) :
        /\ loads[i].stage = "resp"
        /\ list' = IF loads[i].ok THEN loaded(feature, loads[i].data) ELSE list
        /\ loads' = RemoveAt(overtakenBy(loads, i), i)
        /\ IF loads[i].by = "h"
           THEN /\ h' = [h EXCEPT !.stage = "idle", !.upd = NoUpdate,
                                  !.loadOk = loads[i].ok]
                /\ optimistic' = <<>>
           ELSE UNCHANGED <<h, optimistic>>
        /\ up' = IF loads[i].by = "up" THEN [up EXCEPT !.stage = "idle"] ELSE up
        /\ UNCHANGED <<feature, form, running, serverVars, last, session, sortOrder, cr, started, pureVars>>

Next ==
    \/ handleDelete
    \/ handleToggleComplete
    \/ handlePriorityChange
    \/ handleSaveEdit
    \/ handleUpload
    \/ createAction
    \/ toggleSortOrder
    \/ MutationReturns
    \/ UploadReturns
    \/ CreateReturns
    \/ ServeLoad
    \/ DeliverLoad

Spec == Init /\ [][Next]_vars

(* ------------- the view when an awaited server action rejects ---------- *)
\* the server action awaited inside startTransition(async () => ...) rejects
\* (createClient / auth.getUser raised before its try block): the handler
\* has no try/catch, the function of the transition rejects, the transition
\* ends and its optimistic action is retired; no load function is called
MutationThrows ==
    /\ h.stage = "req"
    /\ h' = [h EXCEPT !.stage = "idle", !.upd = NoUpdate, !.success = FALSE,
                       !.thrown = TRUE]
    /\ optimistic' = <<>>
    /\ UNCHANGED <<feature, form, running, serverVars, last, session, list, sortOrder, up, cr,
                   loads, started, pureVars>>

\* a handleUpload without its finally block: a rejected call leaves the
\* uploading flag set
UploadThrowsWithoutFinally ==
    /\ up.stage = "req"
    /\ up' = [up EXCEPT !.stage = "thrown", !.success = FALSE]
    /\ UNCHANGED <<feature, form, running, serverVars, last, session, list, optimistic,
                   sortOrder, h, cr, loads, started, pureVars>>

\* uploadPhoto rejects inside the try of handleUpload: catch shows a toast,
\* finally calls setUploading(false)
UploadThrows ==
    /\ up.stage = "req"
    /\ up' = [up EXCEPT !.stage = "idle", !.success = FALSE]
    /\ UNCHANGED <<feature, form, running, serverVars, last, session, list, optimistic, sortOrder,
                   h, cr, loads, started, pureVars>>

\* the pokemon gallery: the page passes the catalogue, newest first, and the
\* effect on [sortBy, sortOrder] calls loadPokemon on mount
InitPokemon ==
    /\ feature = "pokemon"
    /\ store \in {<<>>, <<NewRow(1, NoUser, "a", "medium", 0)>>}
    /\ bucket = {}
    /\ nextId = Len(store) + 1
    /\ nextBlob = 1
    /\ reviews = <<>>
    /\ nextReview = 1
    /\ last = NoCall
    /\ form = IdleForm
    /\ running = <<>>
    /\ session = "A"
    /\ list = getPokemonWithReviews(store, "desc", {}).data
    /\ optimistic = <<>>
    /\ sortOrder = "desc"
    /\ h = IdleH
    /\ up = IdleUp
    /\ cr = IdleCr
    /\ loads = <<NewLoad("effect", "desc")>>
    /\ started = 0
    /\ PureIdle

\* the search button (disabled while searching, pending or the box is
\* blank): setSearching(true) and searchPokemon is awaited
handleSearch ==
    /\ feature = "pokemon"
    /\ up.stage = "idle"
    /\ Start
    /\ up' = [success |-> FALSE, sortOrder |-> sortOrder, stage |-> "req"]
    /\ UNCHANGED <<optimistic, sortOrder, h, cr, loads>>

\* searchPokemon returns to handleSearch: an error is shown as a toast, a
\* found pokemon is added in a synchronous transition and loadPokemon is
\* awaited; finally calls setSearching(false)
SearchReturns ==
    /\ feature = "pokemon"
    /\ up.stage = "req"
    /\ \E searchQuery \in {"a", "A ", "zz"}, faults \in {{}, {CallFetch}} :
        LET out == searchPokemon(store, trim(searchQuery), nextId, faults)
        IN /\ nextId <= NumIds \/ out.store = store
           /\ store' = out.store
           /\ nextId' = IF out.store # store THEN nextId + 1 ELSE nextId
           /\ IF out.error = ErrNone
              THEN /\ up' = [up EXCEPT !.stage = "load", !.success = TRUE]
                   /\ loads' = Append(loads, NewLoad("up", up.sortOrder))
              ELSE /\ up' = [up EXCEPT !.stage = "idle", !.success = FALSE]
                   /\ UNCHANGED loads
    /\ UNCHANGED <<feature, form, running, bucket, nextBlob, reviews, nextReview, last, session, list,
                   optimistic, sortOrder, h, cr, started, pureVars>>

InitLive == Init \/ InitPokemon

NextLive ==
    \/ Next
    \/ handleSearch
    \/ SearchReturns
    \/ MutationThrows
    \/ UploadThrows

\* every remote call eventually returns or fails, and an answer that has
\* arrived is eventually handled
SpecLive ==
    /\ InitLive
    /\ [][NextLive]_vars
    /\ WF_vars(MutationReturns \/ MutationThrows)
    /\ WF_vars(UploadReturns \/ SearchReturns \/ UploadThrows)
    /\ WF_vars(CreateReturns)
    /\ WF_vars(ServeLoad)
    /\ WF_vars(DeliverLoad)

(* --------------- server actions that run at the same time -------------- *)
\* a server action is an async function: between two awaits of one call the
\* awaits of another call can run
Call(op, user, arg, pc) == [user |-> user, op |-> op, arg |-> arg, pc |-> pc]

RaceInit ==
    /\ feature \in {"foodReview", "pokemonReview"}
    /\ ReviewInit
    /\ last = NoCall
    /\ ClientIdle
    /\ PureIdle

\* a browser submits the review form of food photo 1 with a valid rating, or
\* the search box; neither button is disabled while an earlier call runs
Invoke ==
    /\ Len(running) < MaxCalls
    /\ \/ /\ feature = "foodReview"
          /\ \E user \in Users :
                running' = Append(running, Call("createReview", user, 1, "lookup"))
       \/ /\ feature = "pokemonReview"
          /\ \E name \in {"a", "A ", "zz"} :
                running' = Append(running, Call("search", NoUser, name, "lookup"))
    /\ UNCHANGED <<feature, form, serverVars, last, clientVars, pureVars>>

\* createReview up to the answer of prisma.review.findFirst: the call returns
\* here when the photo is missing or the caller has a review of it
ReviewLookup ==
    \E i \in 1..Len(running) :
        LET c == running[i]
            out == createReview(reviews, store, c.user, c.arg, 3, nextReview, {})
        IN /\ c.op = "createReview"
           /\ c.pc = "lookup"
           /\ IF out.success
              THEN /\ running' = [running EXCEPT ![i] = Call(c.op, c.user, c.arg, "create")]
                   /\ UNCHANGED last
              ELSE /\ running' = RemoveAt(running, i)
                   /\ \E diag \in DiagsFor({}) :
                         last' = Record("createReview", c.user, c.arg, NoFile, out, diag)
           /\ UNCHANGED <<feature, form, serverVars, clientVars, pureVars>>

\* prisma.review.create of a call that found no review: the reviews table
\* has a primary key on id and no unique index on (food_photo_id, profile_id)
ReviewInsert ==
    \E i \in 1..Len(running) :
        LET c == running[i]
            out == RevOut(TRUE, ErrNone, <<CallAuth, CallRead, CallRead, CallWrite>>,
                          Review(nextReview, c.user, c.arg, 3),
                          Append(reviews, Review(nextReview, c.user, c.arg, 3)))
        IN /\ c.op = "createReview"
           /\ c.pc = "create"
           /\ nextReview <= MaxReviews
           /\ running' = RemoveAt(running, i)
           /\ CommitReviews(out)
           /\ \E diag \in DiagsFor({}) :
                 last' = Record("createReview", c.user, c.arg, NoFile, out, diag)
           /\ UNCHANGED <<feature, form, clientVars, pureVars>>

\* searchPokemon up to the answer of prisma.pokemon.findUnique({where: {name}})
SearchLookup ==
    \E i \in 1..Len(running) :
        LET c == running[i]
            row == findByName(store, searchName(c.arg))
        IN /\ c.op = "search"
           /\ c.pc = "lookup"
           /\ IF row = NoItem
              THEN /\ running' = [running EXCEPT ![i] = Call(c.op, c.user, c.arg, "fetch")]
                   /\ UNCHANGED last
              ELSE /\ running' = RemoveAt(running, i)
                   /\ last' = ListRecord("search", c.user, NoId,
                                         SearchOut(row, ErrNone, <<CallRead>>, store))
           /\ UNCHANGED <<feature, form, serverVars, clientVars, pureVars>>

\* the answer of pokeapi.co: 404 for a name it does not know
SearchFetch ==
    \E i \in 1..Len(running) :
        LET c == running[i]
        IN /\ c.op = "search"
           /\ c.pc = "fetch"
           /\ IF searchName(c.arg) \in PokeApiNames
              THEN /\ running' = [running EXCEPT ![i] = Call(c.op, c.user, c.arg, "create")]
                   /\ UNCHANGED last
              ELSE /\ running' = RemoveAt(running, i)
                   /\ last' = ListRecord("search", c.user, NoId,
                                         SearchOut(NoItem, ErrNotFound,
                                                   <<CallRead, CallFetch>>, store))
           /\ UNCHANGED <<feature, form, serverVars, clientVars, pureVars>>

\* prisma.pokemon.create: the unique index pokemon_name_key rejects a second
\* row of the name, the exception is caught and an error is returned
SearchInsert ==
    \E i \in 1..Len(running) :
        LET c == running[i]
            row == NewRow(nextId, NoUser, searchName(c.arg), "medium", 0)
            taken == findByName(store, searchName(c.arg)) # NoItem
            out == IF taken
                   THEN SearchOut(NoItem, ErrUpstream, <<CallRead, CallFetch, CallWrite>>,
                                  store)
                   ELSE SearchOut(row, ErrNone, <<CallRead, CallFetch, CallWrite>>,
                                  Append(store, row))
        IN /\ c.op = "search"
           /\ c.pc = "create"
           /\ taken \/ nextId <= NumIds
           /\ running' = RemoveAt(running, i)
           /\ store' = out.store
           /\ nextId' = IF taken THEN nextId ELSE nextId + 1
           /\ last' = ListRecord("search", c.user, NoId, out)
           /\ UNCHANGED <<feature, form, bucket, nextBlob, reviews, nextReview, clientVars,
                          pureVars>>

RaceNext ==
    \/ Invoke
    \/ ReviewLookup
    \/ ReviewInsert
    \/ SearchLookup
    \/ SearchFetch
    \/ SearchInsert

SpecRace == RaceInit /\ [][RaceNext]_vars

(* ------------------- the cards of a review gallery -------------------- *)
\* getFoodPhotos / getPokemonWithReviews with include: {_count: {select:
\* {reviews: true}}}, created_at desc: a card per row with the number of
\* reviews the review table holds for it
withCounts(st, rv) ==
    Reverse([i \in 1..Len(st) |->
                [id |-> st[i].id,
                 count |-> Cardinality({j \in 1..Len(rv) : rv[j].item = st[i].id})]])

\* the gallery as first rendered for a signed-in user: two items, no review
\* yet or one review of item 1, the cards as the page's list call returned
\* them
GalleryInit ==
    /\ feature \in {"foodGallery", "pokemonGallery"}
    /\ store = IF feature = "foodGallery"
               THEN <<InitRow("food", 1, "A"), InitRow("food", 2, "B")>>
               ELSE <<NewRow(1, NoUser, "a", "medium", 0), NewRow(2, NoUser, "b", "medium", 0)>>
    /\ bucket = IF feature = "foodGallery" THEN {1, 2} ELSE {}
    /\ nextId = 3
    /\ nextBlob = 3
    /\ \E owner \in Users : reviews \in {<<>>, <<Review(1, owner, 1, 3)>>}
    /\ nextReview = Len(reviews) + 1
    /\ last = NoCall
    /\ form = IdleForm
    /\ running = <<>>
    /\ session \in Users
    /\ list = withCounts(store, reviews)
    /\ optimistic = <<>>
    /\ sortOrder = "desc"
    /\ h = IdleH
    /\ up = IdleUp
    /\ cr = IdleCr
    /\ loads = <<>>
    /\ started = 0
    /\ PureIdle

\* handleSubmitReview(id) with a rating of 1 to 5 selected: createReview or
\* createPokemonReview is called
handleSubmitReview ==
    /\ feature \in {"foodGallery", "pokemonGallery"}
    /\ h.stage = "idle"
    /\ started < MaxActions
    /\ nextReview <= MaxReviews
    /\ \E id \in Ids : h' = Running("submitReview", id, NoUpdate)
    /\ started' = started + 1
    /\ UNCHANGED <<feature, form, running, serverVars, last, session, list, optimistic,
                   sortOrder, up, cr, loads, pureVars>>

\* handleDeleteReview(review.id, id): the delete button of a review shown on
\* card id, the user's own review when the card has one
handleDeleteReview ==
    /\ feature \in {"foodGallery", "pokemonGallery"}
    /\ h.stage = "idle"
    /\ started < MaxActions
    /\ \E id \in Ids :
          /\ \E j \in 1..Len(reviews) : reviews[j].item = id
          /\ h' = Running("deleteReview", id, NoUpdate)
    /\ started' = started + 1
    /\ UNCHANGED <<feature, form, running, serverVars, last, session, list, optimistic,
                   sortOrder, up, cr, loads, pureVars>>

\* the awaited review action returns: on success the handler goes on to
\* await loadReviews(id), on a failure result it shows a toast and ends
ReviewActionReturns ==
    /\ feature \in {"foodGallery", "pokemonGallery"}
    /\ h.stage = "req"
    /\ LET shown == SelectSeq(reviews, LAMBDA r : r.item = h.id)
           own == SelectSeq(shown, LAMBDA r : r.owner = session)
           clicked == IF own # <<>> THEN own[1].id ELSE shown[1].id
           out == IF h.kind = "submitReview"
                  THEN createReview(reviews, store, session, h.id, 3, nextReview, {})
                  ELSE deleteReview(reviews, session, clicked, {})
       IN /\ CommitReviews(out)
          /\ h' = [h EXCEPT !.success = out.success,
                            !.stage = IF out.success THEN "reviews" ELSE "idle"]
    /\ UNCHANGED <<feature, form, running, last, session, list, optimistic, sortOrder,
                   up, cr, loads, started, pureVars>>

\* loadReviews(id) has set the reviews shown under the card. The food
\* gallery's handler ends here; the pokemon gallery's handler goes on to
\* await loadPokemon()
ReviewsLoaded ==
    /\ feature \in {"foodGallery", "pokemonGallery"}
    /\ h.stage = "reviews"
    /\ h' = [h EXCEPT !.stage = IF feature = "pokemonGallery" THEN "cards" ELSE "idle"]
    /\ UNCHANGED <<feature, form, running, serverVars, last, session, list, optimistic,
                   sortOrder, up, cr, loads, started, pureVars>>

\* loadPokemon() has set the cards to the catalogue with its review counts
CardsLoaded ==
    /\ feature = "pokemonGallery"
    /\ h.stage = "cards"
    /\ list' = withCounts(store, reviews)
    /\ h' = [h EXCEPT !.stage = "idle", !.loadOk = TRUE]
    /\ UNCHANGED <<feature, form, running, serverVars, last, session, optimistic,
                   sortOrder, up, cr, loads, started, pureVars>>

GalleryNext ==
    \/ handleSubmitReview
    \/ handleDeleteReview
    \/ ReviewActionReturns
    \/ ReviewsLoaded
    \/ CardsLoaded

SpecGallery == GalleryInit /\ [][GalleryNext]_vars

(* ----------------------- properties of the reducers ------------------- *)
RECURSIVE IsSubseq(_, _)
IsSubseq(a, b) ==
    IF a = <<>> THEN TRUE
    ELSE IF b = <<>> THEN FALSE
    ELSE IF Head(a) = Head(b) THEN IsSubseq(Tail(a), Tail(b))
    ELSE IsSubseq(a, Tail(b))

\* C1: in every feature's reducer, an Add of an item whose id is not in a
\* list of unique ids prepends the item, which is then present exactly once,
\* and applying the same Add to the result changes nothing.
C1_AddPrependsOnceAndIsIdempotent ==
    (pAct.type = "add" /\ pAct.item # NoItem /\ UniqueIds(pIn)
        /\ pAct.item.id \notin IdsOf(pIn))
    => /\ pOut = <<pAct.item>> \o pIn
       /\ Count(pOut, pAct.item.id) = 1
       /\ Reducer(feature, pOut, pAct) = pOut

\* C2: a Delete of id k removes exactly the items with id k, keeps the
\* others in their order, and returns the list itself when k is absent.
C2_DeleteRemovesExactlyTheId ==
    (pAct.type = "delete" /\ feature \in {"todos", "notes", "photos", "food"})
    => /\ \A i \in 1..Len(pOut) : pOut[i].id # pAct.id
       /\ Len(pOut) = Len(pIn) - Count(pIn, pAct.id)
       /\ IsSubseq(pOut, pIn)
       /\ (pAct.id \notin IdsOf(pIn) => pOut = pIn)

C2_Witness ==
    /\ pAct.type = "delete"
    /\ feature = "notes"
    /\ Len(pIn) = 3
    /\ Count(pIn, pAct.id) = 1
    /\ pIn[2].id = pAct.id
    /\ Len(pOut) = 2

\* C3: an Update of id k by replacement R puts R at the position of the
\* item with id k, leaves every other position and the length as they were,
\* and returns the list itself when k is absent.
C3_UpdateReplacesInPlace ==
    (pAct.type = "update" /\ pAct.item # NoItem)
    => /\ Len(pOut) = Len(pIn)
       /\ \A i \in 1..Len(pIn) :
            pOut[i] = IF pIn[i].id = pAct.id THEN pAct.item ELSE pIn[i]
       /\ (pAct.id \notin IdsOf(pIn) => pOut = pIn)

C3_Witness ==
    /\ pAct.type = "update"
    /\ pAct.item # NoItem
    /\ Len(pIn) = 2
    /\ pIn[2].id = pAct.id
    /\ pIn[1].id # pAct.id
    /\ pOut[2] = pAct.item
    /\ pOut[2] # pIn[2]
    /\ pOut[1] = pIn[1]

\* C4: an action of a kind the feature's reducer has no case for, and an Add
\* or Update that carries no item, returns the list unchanged.
C4_UnrecognisedIsNoOp ==
    (\/ pAct.type = "refresh"
     \/ (pAct.type = "toggle" /\ feature # "todos")
     \/ (pAct.type = "delete" /\ feature = "pokemon")
     \/ (pAct.type \in {"add", "update"} /\ pAct.item = NoItem))
    => pOut = pIn

C4_Witness ==
    /\ pAct.type = "add"
    /\ pAct.item = NoItem
    /\ feature = "photos"
    /\ pIn # <<>>
    /\ pOut = pIn

C7_FailedPatchGoneAfterRefetch ==
    [][(/\ h.stage = "load"
        /\ h.kind \in {"delete", "toggle", "priority"}
        /\ h.success = FALSE
        /\ h'.stage = "idle"
        /\ h'.loadOk)
       => /\ optimistic' = <<>>
          /\ \E i \in 1..Len(loads) :
                /\ loads[i].by = "h"
                /\ loads[i].ok
                /\ DisplayedOf(list', optimistic') = loads[i].data]_vars

C7_Witness ==
    /\ h.stage = "idle"
    /\ h.kind = "delete"
    /\ h.success = FALSE
    /\ h.loadOk
    /\ optimistic = <<>>
    /\ SomeId(Displayed, h.id)
    /\ Displayed = getList(feature, store, session, sortOrder, {}).data

\* C8: once no mutation and no refetch is in flight, the displayed list is
\* the list the store holds for the caller under the current sort order.
C8_QuiescentListIsAuthoritative ==
    (h.stage = "idle" /\ up.stage = "idle" /\ cr.stage = "idle" /\ loads = <<>>)
    => Displayed = getList(feature, store, session, sortOrder, {}).data

(* -------------------- properties of the server actions ---------------- *)
\* C9: a delete or update by a signed-in user who does not own the row
\* returns success = false and changes nothing, so the caller's list after
\* the call is the list before it.
C9_NonOwnerMutationRejected ==
    [][(/\ last'.op \in {"delete", "update"}
        /\ last'.user # NoUser
        /\ findUnique(store, last'.id) # NoItem
        /\ findUnique(store, last'.id).owner # last'.user)
       => /\ last'.success = FALSE
          /\ store' = store
          /\ bucket' = bucket
          /\ \A order \in {"asc", "desc"} :
                getList(feature, store', last'.user, order, {})
                    = getList(feature, store, last'.user, order, {})]_vars

C9_Witness ==
    /\ last.op = "delete"
    /\ last.user = "A"
    /\ findUnique(store, last.id) # NoItem
    /\ findUnique(store, last.id).owner = "B"
    /\ last.success = FALSE
    /\ last.err = ErrPerm

\* C11: an image file of at most 10 * 1024 * 1024 bytes passes the size
\* check (the upload goes on to the blob store); a larger one is refused
\* with a failure envelope, with no blob upload and no database write.
C11_SizeLimitIsTenMiB ==
    [][(/\ last'.op = "upload"
        /\ last'.user # NoUser
        /\ last'.file # NoFile
        /\ startsWithImage(last'.file.type))
       => IF last'.file.size > 10 * 1024 * 1024
          THEN /\ last'.success = FALSE
               /\ last'.err = ErrValidation
               /\ \A i \in 1..Len(last'.calls) :
                     last'.calls[i] \notin {CallBlobPut, CallWrite}
               /\ store' = store
               /\ bucket' = bucket
          ELSE \E i \in 1..Len(last'.calls) : last'.calls[i] = CallBlobPut]_vars

C11_Witness ==
    /\ last.op = "upload"
    /\ last.user = "A"
    /\ last.file.size = 10 * 1024 * 1024
    /\ last.success
    /\ \E i \in 1..Len(store) : store[i].owner = "A" /\ store[i].url \in bucket

\* C12 as stated: the value a server action returns has, on every path, the
\* shape {success, message, data?}.
C12_UniformEnvelope ==
    (last.op # "none" /\ last.err # ErrThrown)
    => /\ {"success", "message"} \subseteq DOMAIN last.resp
       /\ DOMAIN last.resp \subseteq {"success", "message", "data"}

\* C12 amended: every value a create, upload, update or delete action
\* returns is {success, message, data?} with a boolean success, whatever the
\* path; every value a list, get or search action returns is {data, error}.
C12_TwoEnvelopes ==
    /\ (last.op \notin {"none", "list", "get", "search"} /\ last.err # ErrThrown)
       => /\ {"success", "message"} \subseteq DOMAIN last.resp
          /\ DOMAIN last.resp \subseteq {"success", "message", "data"}
          /\ last.resp.success \in BOOLEAN
          /\ last.resp.success = last.success
    /\ (last.op \in {"list", "get", "search"} /\ last.err # ErrThrown)
       => DOMAIN last.resp = {"data", "error"}

C12_Witness ==
    /\ last.op = "update"
    /\ last.user = "A"
    /\ last.err = ErrPerm
    /\ DOMAIN last.resp = {"success", "message"}
    /\ last.resp.success = FALSE

\* C13 as stated: no call of a server action ends in a thrown error: whatever
\* the identity provider, the database and the blob store do, errors they
\* raise included, the caller is handed a failure value.
C13_NoFailureIsThrown ==
    last.op # "none" => last.err # ErrThrown

C15_UpstreamMessageIsGeneric ==
    (last.err = ErrUpstream /\ last.op \notin {"list", "get", "search"})
    => \A diag \in Diags : last.resp.message = message(last.op, last, diag)

\* C16 as stated: every list operation is scoped to the caller: in todos,
\* notes, photos and food photos alike, no item of another user appears in
\* the list returned to a user.
C16_EveryListOwnerScoped ==
    (last.op = "list" /\ feature \in StoreFeatures /\ last.err # ErrThrown)
    => \A i \in 1..Len(last.resp.data) : last.resp.data[i].owner = last.user

\* C16 amended: the lists of todos, notes and photos are scoped to the
\* caller: a successful list holds exactly the caller's rows and no row of
\* another user. The food photo list is shared: a successful list holds
\* the food photos of every user.
C16_ListsOwnerScopedExceptFood ==
    (last.op = "list" /\ last.err # ErrThrown)
    => /\ feature \in {"todos", "notes", "photos"}
          => /\ \A i \in 1..Len(last.resp.data) : last.resp.data[i].owner = last.user
             /\ last.success
                => IdsOf(last.resp.data)
                       = {store[i].id : i \in {j \in 1..Len(store) : store[j].owner = last.user}}
       /\ (feature = "food" /\ last.success)
          => IdsOf(last.resp.data) = IdsOf(store)

C16_Witness ==
    /\ feature = "photos"
    /\ last.op = "list"
    /\ last.user = "A"
    /\ last.success
    /\ Len(last.resp.data) = 1
    /\ \E i \in 1..Len(store) : store[i].owner = "B"

\* C17 as stated: a server action called without a verified identity
\* returns the AuthenticationRequired failure and makes no read or write on
\* the database, the blob store or any other external service.
C17_NoIdentityNoAccess ==
    (last.op # "none" /\ last.user = NoUser /\ last.err # ErrThrown)
    => /\ last.success = FALSE
       /\ last.err = ErrAuth
       /\ \A i \in 1..Len(last.calls) :
             last.calls[i] \notin {CallRead, CallWrite, CallBlobPut, CallBlobRemove, CallFetch}

\* C18: in the state a successful create or upload leaves, a list call by
\* the same user, in either order and with no filter, succeeds and holds
\* the new item exactly once, under the id the store assigned to it, which
\* no other row carries.
C18_CreatedItemListedOnce ==
    (last.op \in {"create", "upload"} /\ last.success)
    => \A order \in {"asc", "desc"} :
          LET l == getList(feature, store, last.user, order, {})
          IN /\ l.error = ErrNone
             /\ Count(l.data, nextId - 1) = 1
             /\ Count(store, nextId - 1) = 1
             /\ \A i \in 1..Len(l.data) :
                   l.data[i].id = nextId - 1 => l.data[i].owner = last.user

C18_Witness ==
    /\ feature = "todos"
    /\ last.op = "create"
    /\ last.success
    /\ Len(store) = 2
    /\ store[1].owner = "A"

\* C19: whatever food-photo and review operations have run, every review
\* in the store is of a food photo that exists and by a user that exists;
\* and a successful deleteFoodPhoto removes all reviews of the deleted photo,
\* other users' reviews included, and no review of another photo.
C19_ReviewsFollowTheirPhoto ==
    /\ [](\A i \in 1..Len(reviews) :
             SomeId(store, reviews[i].item) /\ reviews[i].owner \in Users)
    /\ [][(feature = "foodReview" /\ last'.op = "delete" /\ last'.success)
          => /\ ~SomeId(store', last'.id)
             /\ reviews' = SelectSeq(reviews, LAMBDA r : r.item # last'.id)]_vars

C19_Witness ==
    /\ feature = "foodReview"
    /\ last.op = "delete"
    /\ last.user = "A"
    /\ last.success
    /\ last.id = 1
    /\ nextReview = 3
    /\ reviews = <<Review(2, "B", 2, 3)>>

\* C20: the signup action is called only with two equal passwords that are
\* strong enough, one call per submit; a submit event on a form whose
\* passwords differ or whose password is too weak, fired on the form itself
\* included, calls nothing and leaves one of the two error toasts.
C20_SignupOnlyForValidInput ==
    /\ [][form'.calls # form.calls
          => /\ form.password = form.confirmPassword
             /\ isStrong(form.password)
             /\ form'.calls = form.calls + 1]_vars
    /\ []((/\ form.event = "submit"
           /\ (form.password # form.confirmPassword \/ ~isStrong(form.password)))
          => /\ ~form.pending
             /\ form.toast \in {"Passwords do not match.", "Password is too weak. Please strengthen it."})

C20_Witness ==
    /\ form.event = "submit"
    /\ form.password = "StrongPassword123!"
    /\ form.confirmPassword = "DifferentPassword123!"
    /\ form.toast = "Passwords do not match."
    /\ form.calls = 0

Delivers(i) ==
    /\ Len(loads') = Len(loads) - 1
    /\ \A j \in 1..Len(loads') :
          [loads'[j] EXCEPT !.newer = <<>>] = [RemoveAt(loads, i)[j] EXCEPT !.newer = <<>>]

C22_AtMostOneMutationInFlight ==
    Cardinality({k \in {"h", "up", "cr"} :
                    CASE k = "h" -> h.stage = "req"
                      [] k = "up" -> up.stage = "req"
                      [] OTHER -> cr.stage = "req"}) <= 1

\* C23: every id in the stored list, in the displayed list and in an
\* optimistic add is an id the store has assigned, and a refetch that
\* delivers a list leaves in the stored list only items of its response.
C23_OnlyStoreAssignedIds ==
    /\ [](\A id \in IdsOf(list) \cup IdsOf(Displayed)
                    \cup {optimistic[k].item.id :
                            k \in {j \in 1..Len(optimistic) : optimistic[j].type = "add"}} :
             id \in 1..(nextId - 1))
    /\ [][\A i \in 1..Len(loads) :
             (loads[i].stage = "resp" /\ loads[i].ok /\ Delivers(i))
             => /\ list' = loaded(feature, loads[i].data)
                /\ IdsOf(list') \subseteq IdsOf(loads[i].data)]_vars

C23_Witness ==
    /\ feature \in PhotoFeatures \cup {"pokemon"}
    /\ up.success
    /\ up.stage = "idle"
    /\ nextId > 1
    /\ SomeId(store, nextId - 1)
    /\ SomeId(list, nextId - 1)
    /\ SomeId(Displayed, nextId - 1)
    /\ loads = <<>>

C28_BusyFlagsEventuallyCleared ==
    /\ (up.stage # "idle") ~> (up.stage = "idle")
    /\ (h.stage # "idle") ~> (h.stage = "idle" /\ ~isPending)

C28_Witness ==
    /\ h.thrown
    /\ h.stage = "idle"
    /\ up.success
    /\ up.stage = "idle"
    /\ started = MaxActions
    /\ loads = <<>>

\* C25: when the answer of a refetch is handled after the list of a refetch
\* issued later has been delivered, the stored list is, after the step,
\* still the list of the later request.
C25_LatestRequestWins ==
    [][\A i \in 1..Len(loads) :
          (loads[i].stage = "resp" /\ loads[i].newer # <<>> /\ Delivers(i))
          => list' = loaded(feature, loads[i].newer[1])]_vars

\* C29: once a handler that created or deleted a review has ended with
\* success, the count on the reviewed item's card is the number of reviews
\* the store holds for the item.
C29_CardCountIsStoredCount ==
    (/\ feature \in {"foodGallery", "pokemonGallery"}
     /\ h.kind \in {"submitReview", "deleteReview"}
     /\ h.stage = "idle"
     /\ h.success)
        => \A i \in 1..Len(list) :
              list[i].id = h.id
                  => list[i].count = Cardinality({j \in 1..Len(reviews) : reviews[j].item = h.id})

\* C27: in the photo and food-photo galleries the url of every row names a
\* blob that is in the bucket, and every blob in the bucket is named by the
\* url of some row.
C27_RowsAndBlobsCorrespond ==
    feature \in PhotoFeatures
    => /\ \A i \in 1..Len(store) : store[i].url \in bucket
       /\ \A b \in bucket : \E i \in 1..Len(store) : store[i].url = b

(* ------------- properties of server actions that overlap --------------- *)
\* C26: the reviews table never holds two reviews of one item by one user,
\* and a createReview call that returns success found no review of the item
\* by its caller in the table it added its row to.
C26_OneReviewPerUserAndItem ==
    /\ \A i \in 1..Len(reviews), j \in 1..Len(reviews) :
          (reviews[i].item = reviews[j].item /\ reviews[i].owner = reviews[j].owner)
          => i = j
    /\ (last.op = "createReview" /\ last.success)
       => Cardinality({i \in 1..Len(reviews) :
                          reviews[i].item = last.id /\ reviews[i].owner = last.user}) = 1

\* C30: the pokemon table holds at most one row per name, and a search for a
\* name that pokeapi.co knows returns no error but the one row of that name.
C30_SearchIsIdempotent ==
    /\ feature = "pokemonReview"
       => \A i \in 1..Len(store), j \in 1..Len(store) : store[i].v = store[j].v => i = j
    /\ (feature = "pokemonReview" /\ last.op = "search" /\ last.err # ErrNotFound)
       => /\ last.err = ErrNone
          /\ last.resp.data # NoItem
          /\ last.resp.data = findByName(store, last.resp.data.v)
====
